---- MODULE Spec2Model ----
(***************************************************************************)
(* Conversation-turn tracking of the Affiliate bot (src/bot.py).           *)
(*                                                                         *)
(* The state is the SQLite database the handlers share (tables messages,   *)
(* unanswered_questions, response_metrics, employees and the AUTOINCREMENT *)
(* counter of unanswered_questions), the wall clock, the notifications the *)
(* bot has sent, and the position of a running escalation scan.  The       *)
(* daily job adds the table employee_activity.                             *)
(*                                                                         *)
(* Every handler is translated statement by statement, with the values     *)
(* Python gives them.  Three of those values decide most of the behaviour: *)
(*   - bot.py:404  `new_turn_id = cursor.fetchone()` is the RETURNING row  *)
(*     (a 1-tuple), not its column.  sqlite3 cannot bind a tuple, so the   *)
(*     INSERT INTO messages of bot.py:327 raises ProgrammingError and the  *)
(*     `with conn` block of bot.py:300 rolls the transaction back.         *)
(*   - bot.py:499  `original_msg_id = last_partner_msg` is the whole row,  *)
(*     so the INSERT INTO response_metrics of bot.py:507 raises and is     *)
(*     swallowed by the handler of bot.py:528.                             *)
(*   - bot.py:744/749 `context.args.startswith` and bot.py:949             *)
(*     `int(context.args)` apply to the argument list, so add_employee and *)
(*     remove_employee raise before they reach their SQL.                  *)
(*                                                                         *)
(* Abstractions: timestamps are integer ticks and every datetime.now() of  *)
(* one handler run reads the same tick; message text, user names and the   *)
(* replied_to_message_id column (written, never read) are left out; one    *)
(* store operation per handler run may raise sqlite3.OperationalError; the *)
(* error reports to the admin chat (bot.py:358, bot.py:994) are not kept.  *)
(* The employees table belongs to the administrator: the database file     *)
(* outlives the process (CREATE TABLE IF NOT EXISTS, bot.py:100) and the   *)
(* bot starts on whatever registry it holds.                               *)
(***************************************************************************)
EXTENDS Integers, Sequences, FiniteSets, TLC

\* ------------------------------------------------------------------ bounds
MaxChat   == 1
MaxUser   == 2
MaxMsgId  == 2
MaxTime   == 3
MaxOutbox == 2
MaxTurnId == 2
\* Ticks of one calendar day: DATE(timestamp) of tick t is t \div TicksPerDay.
TicksPerDay == 2

\* --------------------------------------------------- configuration values
\* config.py reads both from the environment; validate_config only asks
\* that they are positive.  The model runs the configuration 1 / 2 ticks
\* (the defaults are 3600 and 14400 seconds).
CONVERSATION_TURN_TIMEOUT  == 1
UNANSWERED_ALERT_THRESHOLD == 2
\* ADMIN_CHAT_ID is set (config.py:16).
ADMIN_CHAT_ID_SET == TRUE

Chats  == 1..MaxChat
Users  == 1..MaxUser
MsgIds == 1..MaxMsgId

VARIABLES
    messages,              \* table messages
    unanswered_questions,  \* table unanswered_questions (the open turns)
    response_metrics,      \* table response_metrics
    employees,             \* table employees (user ids)
    employee_activity,     \* table employee_activity (the daily summaries)
    turn_seq,              \* sqlite_sequence of unanswered_questions
    now,                   \* datetime.now()
    outbox,                \* reminders and alerts sent so far (a saturating bag)
    scan,                  \* turns a running scan has selected and not yet handled
    last,                  \* how the last run of track_message went, and whether
                           \* the message replied to a stored one (observer)
    closures,              \* turns deleted by employee messages so far (observer)
    summarised,            \* the daily job has just read the tables (observer)
    m1                     \* a remembered partner message (observer of the stream)

vars == <<messages, unanswered_questions, response_metrics, employees,
          employee_activity, turn_seq, now, outbox, scan, last, closures,
          summarised, m1>>

\* ------------------------------------------------------------ Python values
\* What a Python name holds where the code later binds it as an SQL parameter.
PyNone     == [type |-> "NoneType", v |-> 0]
PyInt(n)   == [type |-> "int",      v |-> n]
\* The first column of a fetched row, the value row[0] holds.
PyRowColumn(n) == [type |-> "int", v |-> n]
\* A fetched row whose first column is n.
PyTuple(n) == [type |-> "tuple",    v |-> n]

\* sqlite3 binds None and int (among others); a tuple has no adapter.
Bindable(x) == x.type \in {"NoneType", "int"}

\* SQL NULL in an integer column.
NULL == 0

\* The first column of the RETURNING row, what `cursor.fetchone()[0]` gives:
\* the value bot.py:404 does not take.  With it the created turn is committed.
new_turn_id_column(id) == PyInt(id)

\* bot.py:404  new_turn_id = cursor.fetchone()  after INSERT ... RETURNING
\* turn_id: the fetched row.
new_turn_id(id) == PyTuple(id)

\* The message_id column of the last partner message, `last_partner_msg[0]`:
\* the value bot.py:499 does not take.  With it the metric is inserted.
original_msg_id_column(last_partner_msg) == PyInt(last_partner_msg.message_id)

\* bot.py:499  original_msg_id = last_partner_msg : the fetched row.
original_msg_id(last_partner_msg) == PyTuple(last_partner_msg.message_id)

\* ------------------------------------------------------------------ tables
Db(msgs, turns, metrics, seq) ==
    [messages |-> msgs, turns |-> turns, metrics |-> metrics, seq |-> seq]

CurrentDb == Db(messages, unanswered_questions, response_metrics, turn_seq)

NoRow == [message_id |-> NULL, user_id |-> NULL, timestamp |-> 0]

MessageStored(msgs, chat, mid) ==
    \E r \in msgs : r.chat_id = chat /\ r.message_id = mid

TurnsOfKey(turns, chat, partner) ==
    {t \in turns : t.chat_id = chat /\ t.partner_user_id = partner}

\* DELETE FROM unanswered_questions ...: with PRAGMA foreign_keys = ON the
\* clause ON DELETE SET NULL of messages.turn_id clears the back-references.
DeleteTurns(db, gone) ==
    LET ids == {t.turn_id : t \in gone}
    IN  [db EXCEPT
           !.turns = @ \ gone,
           !.messages = {IF r.turn_id \in ids THEN [r EXCEPT !.turn_id = NULL] ELSE r
                         : r \in @}]

\* is_employee: a SELECT on its own connection; any exception gives False.
is_employee(user, fail) ==
    IF fail = "is_employee" THEN FALSE ELSE user \in employees

\* ------------------------------------------------------------ partner side
\* handle_partner_message (bot.py:364-410): the turn of (chat, user) is
\* extended, replaced or created.  Every exception is caught (bot.py:408) and
\* None returned, the statements already executed staying in the transaction.
\* The result is the database of the open transaction and the returned value.
handle_partner_message(db, chat, user, mid, t, fail) ==
    LET existing  == TurnsOfKey(db.turns, chat, user)
        Caught(d) == [db |-> d, ret |-> PyNone]
        Create(d) ==
            \* INSERT ... RETURNING turn_id; UNIQUE(chat_id, partner_user_id)
            IF fail = "turn_insert" \/ TurnsOfKey(d.turns, chat, user) # {}
            THEN Caught(d)
            ELSE LET id  == d.seq + 1
                     row == [turn_id                 |-> id,
                             chat_id                 |-> chat,
                             partner_user_id         |-> user,
                             last_partner_message_id |-> mid,
                             turn_start_timestamp    |-> t,
                             last_message_timestamp  |-> t,
                             reminded                |-> FALSE]
                 IN  [db  |-> [d EXCEPT !.turns = @ \cup {row}, !.seq = id],
                      ret |-> new_turn_id(id)]
    IN  IF fail = "turn_select" THEN Caught(db)
        ELSE IF existing = {} THEN Create(db)
        ELSE LET turn == CHOOSE x \in existing : TRUE
             IN  IF t - turn.last_message_timestamp < CONVERSATION_TURN_TIMEOUT
                 THEN IF fail = "turn_update" THEN Caught(db)
                      ELSE [db  |-> [db EXCEPT !.turns = (@ \ {turn}) \cup
                                        {[turn EXCEPT
                                            !.last_partner_message_id = mid,
                                            !.last_message_timestamp  = t,
                                            !.reminded                = FALSE]}],
                            ret |-> PyInt(turn.turn_id)]
                 ELSE IF fail = "turn_delete" THEN Caught(db)
                      ELSE Create(DeleteTurns(db, {turn}))

\* ----------------------------------------------------------- employee side
\* SELECT message_id, user_id, timestamp FROM messages WHERE chat_id = ? AND
\* is_partner_message = 1 ORDER BY timestamp DESC LIMIT 1 (bot.py:307-315):
\* the rows the query may return (SQL leaves the order of equal timestamps
\* open); NoRow when there is none.
LastPartnerCandidates(msgs, chat) ==
    LET part == {r \in msgs : r.chat_id = chat /\ r.is_partner_message}
        top  == {r \in part : \A q \in part : q.timestamp <= r.timestamp}
    IN  IF top = {} THEN {NoRow}
        ELSE {[message_id |-> r.message_id, user_id |-> r.user_id,
               timestamp |-> r.timestamp] : r \in top}

\* handle_employee_reply_simple (bot.py:439-454): the turn of the sender of
\* the last partner message is deleted; exceptions are caught and logged.
handle_employee_reply_simple(db, chat, last_partner_msg, fail) ==
    IF fail = "close" THEN db
    ELSE DeleteTurns(db, TurnsOfKey(db.turns, chat, last_partner_msg.user_id))

\* INSERT INTO response_metrics, UNIQUE(chat_id, reply_message_id): an
\* IntegrityError is passed over (bot.py:514, bot.py:479).
InsertMetric(db, row) ==
    IF \E m \in db.metrics : m.chat_id = row.chat_id
                             /\ m.reply_message_id = row.reply_message_id
    THEN db
    ELSE [db EXCEPT !.metrics = @ \cup {row}]

\* UPDATE messages SET was_answered = TRUE WHERE chat_id = ? AND message_id = ?
MarkAnswered(db, chat, mid) ==
    [db EXCEPT !.messages =
        {IF r.chat_id = chat /\ r.message_id = mid
         THEN [r EXCEPT !.was_answered = TRUE] ELSE r : r \in @}]

\* track_response_metrics_simple (bot.py:496-529).  Binding original_msg_id,
\* the fetched row itself, raises, and the handler of bot.py:528 swallows the
\* exception with nothing written.
track_response_metrics_simple(db, chat, user, mid, last_partner_msg, t, fail) ==
    LET original            == original_msg_id(last_partner_msg)
        original_sender_user_id == last_partner_msg.user_id
        response_time_seconds   == t - last_partner_msg.timestamp
        row == [reply_message_id          |-> mid,
                original_message_id       |-> original.v,
                responder_user_id         |-> user,
                original_sender_user_id   |-> original_sender_user_id,
                chat_id                   |-> chat,
                response_duration_seconds |-> response_time_seconds,
                timestamp                 |-> t]
    IN  IF fail = "metrics" \/ ~Bindable(original) THEN db
        ELSE MarkAnswered(InsertMetric(db, row), chat, original.v)

\* track_response_metrics (bot.py:456-494), reached for an explicit reply when
\* the sender is no employee or no partner message is stored (bot.py:347).
\* original_sender_user_id is the fetched row (a tuple) or None: the first
\* cannot be bound (swallowed at bot.py:493), the second violates NOT NULL
\* (IntegrityError, passed over) and the UPDATE then runs.
track_response_metrics(db, chat, user, mid, reply, t, fail) ==
    LET found == {r \in db.messages : r.chat_id = chat /\ r.message_id = reply}
        original_sender_user_id ==
            IF found = {} THEN PyNone
            ELSE PyTuple((CHOOSE r \in found : TRUE).user_id)
        sent_at == IF found = {} THEN t ELSE (CHOOSE r \in found : TRUE).timestamp
        row == [reply_message_id          |-> mid,
                original_message_id       |-> reply,
                responder_user_id         |-> user,
                original_sender_user_id   |-> original_sender_user_id.v,
                chat_id                   |-> chat,
                response_duration_seconds |-> t - sent_at,
                timestamp                 |-> t]
    IN  IF fail = "metrics" \/ ~Bindable(original_sender_user_id) THEN db
        ELSE IF original_sender_user_id.type = "NoneType"
             THEN MarkAnswered(db, chat, reply)
             ELSE MarkAnswered(InsertMetric(db, row), chat, reply)

\* --------------------------------------------------------- track_message
\* The store operations of one run that may raise sqlite3.OperationalError.
FailPoints ==
    {"none", "connect", "is_employee", "last_partner", "turn_select",
     "turn_update", "turn_delete", "turn_insert", "insert_message", "close",
     "metrics", "commit"}

\* track_message (bot.py:288-362) on the committed database db: the database
\* it leaves, and how the run ended:
\*   "committed"   conn.commit() of bot.py:351;
\*   "duplicate"   IntegrityError on UNIQUE(chat_id, message_id), `return`
\*                 inside `with conn`, whose exit commits the transaction;
\*   "rolled_back" an exception left the `with conn` block, which rolls back,
\*                 and reached the handler of bot.py:353.
track_message(db, chat, user, mid, reply, lp, t, fail) ==
    LET sender_is_employee == is_employee(user, fail)
        is_partner_message == ~sender_is_employee
        last_partner_msg   == IF sender_is_employee THEN lp ELSE NoRow
        hp == IF is_partner_message
              THEN handle_partner_message(db, chat, user, mid, t, fail)
              ELSE [db |-> db, ret |-> PyNone]
        turn_id == hp.ret
        row == [chat_id            |-> chat,
                message_id         |-> mid,
                user_id            |-> user,
                timestamp          |-> t,
                was_answered       |-> FALSE,
                is_partner_message |-> is_partner_message,
                turn_id            |-> turn_id.v]
        stored == [hp.db EXCEPT !.messages = @ \cup {row}]
        replied ==
            IF sender_is_employee /\ last_partner_msg # NoRow
            THEN track_response_metrics_simple(
                     handle_employee_reply_simple(stored, chat, last_partner_msg, fail),
                     chat, user, mid, last_partner_msg, t, fail)
            ELSE IF reply # NULL
                 THEN track_response_metrics(stored, chat, user, mid, reply, t, fail)
                 ELSE stored
        RolledBack == [db |-> db, outcome |-> "rolled_back"]
    IN  IF fail = "connect" \/ (sender_is_employee /\ fail = "last_partner")
        THEN RolledBack
        ELSE IF ~Bindable(turn_id) \/ fail = "insert_message" \/ fail = "commit"
        THEN RolledBack
        ELSE IF MessageStored(hp.db.messages, chat, mid)
        THEN [db |-> hp.db, outcome |-> "duplicate"]
        ELSE [db |-> replied, outcome |-> "committed"]

\* ------------------------------------------------------------ notifications
Note(kind, chat, user, mid) ==
    [kind |-> kind, chat |-> chat, user |-> user, message |-> mid]

\* One more copy of note n in the bag, counted up to MaxOutbox.
Notify(bag, n) ==
    IF n \in DOMAIN bag
    THEN [bag EXCEPT ![n] = IF @ < MaxOutbox THEN @ + 1 ELSE @]
    ELSE bag @@ (n :> 1)

EmptyBag == [n \in {} |-> 0]

\* ----------------------------------------------------------------- observer
\* esc tells what the scanner has done about the remembered message:
\*   "none"  no scan has run since the message became overdue;
\*   "due"   a scan ran its SELECT when the message was overdue, and no send
\*           or UPDATE of a scan has failed since;
\*   "void"  a send or UPDATE of a scan failed after that.
NoEvent == [chat |-> NULL, user |-> NULL, message |-> NULL, at |-> 0,
            esc |-> "none"]

\* m1 remembers at most one partner message: one that was processed without a
\* store failure, was not a redelivery, and is still the latest message of its
\* (chat, user) with no employee message in the chat since.
NextM1(chat, user, mid, from_employee, clean, latch) ==
    IF from_employee
    THEN IF m1.chat = chat THEN NoEvent ELSE m1
    ELSE IF clean /\ latch
         THEN [chat |-> chat, user |-> user, message |-> mid, at |-> now,
               esc |-> "none"]
         ELSE IF m1.chat = chat /\ m1.user = user THEN NoEvent ELSE m1

\* ------------------------------------------------------------------ actions
Init ==
    /\ messages = {}
    /\ unanswered_questions = {}
    /\ response_metrics = {}
    /\ employees \in SUBSET Users
    /\ employee_activity = {}
    /\ turn_seq = 0
    /\ now = 0
    /\ outbox = EmptyBag
    /\ scan = <<>>
    /\ last = [outcome |-> "none", dup |-> FALSE, employee |-> FALSE,
               linked |-> FALSE]
    /\ closures = 0
    /\ summarised = FALSE
    /\ m1 = NoEvent

\* The store operations a run of track_message executes for this delivery:
\* the places where one of them may raise.
FailPointsOf(chat, user, reply, lp) ==
    {"none", "connect", "is_employee", "insert_message", "commit"}
    \cup (IF user \in employees
          THEN {"last_partner"}
               \cup (IF lp # NoRow THEN {"close", "metrics"}
                     ELSE IF reply # NULL THEN {"metrics"} ELSE {})
          ELSE {"turn_select", "turn_insert"}
               \cup (IF TurnsOfKey(unanswered_questions, chat, user) # {}
                     THEN {"turn_update", "turn_delete"} ELSE {})
               \cup (IF reply # NULL THEN {"metrics"} ELSE {}))

\* The last partner message a run fetches: the SELECT of bot.py:307 runs only
\* for a registered sender (bot.py:304).
LastPartnerOf(chat, user) ==
    IF user \in employees THEN LastPartnerCandidates(messages, chat) ELSE {NoRow}

\* One delivery of a text message to track_message (bot.py:1035).
Track(chat, user, mid, reply, fail, latch, lp) ==
    LET r   == track_message(CurrentDb, chat, user, mid, reply, lp, now, fail)
        dup == MessageStored(messages, chat, mid)
    IN  /\ turn_seq < MaxTurnId
        /\ reply # mid
        /\ lp \in LastPartnerOf(chat, user)
        /\ fail \in FailPointsOf(chat, user, reply, lp)
        /\ latch => (fail = "none" /\ ~dup /\ user \notin employees)
        /\ messages' = r.db.messages
        /\ unanswered_questions' = r.db.turns
        /\ response_metrics' = r.db.metrics
        /\ turn_seq' = r.db.seq
        /\ last' = [outcome |-> r.outcome, dup |-> dup,
                    employee |-> is_employee(user, fail),
                    linked |-> (reply # NULL
                                /\ MessageStored(messages, chat, reply))]
        /\ closures' = IF is_employee(user, fail)
                       THEN closures + Cardinality(unanswered_questions \ r.db.turns)
                       ELSE closures
        /\ m1' = NextM1(chat, user, mid, user \in employees,
                        fail = "none" /\ ~dup, latch)
        /\ summarised' = (summarised /\ r.db.messages = messages
                                      /\ r.db.metrics = response_metrics)
        /\ UNCHANGED <<employees, employee_activity, now, outbox, scan>>

TrackMessage ==
    \E chat \in Chats, user \in Users, mid \in MsgIds :
        \E reply \in ({NULL} \cup MsgIds) \ {mid},
           lp \in LastPartnerOf(chat, user) :
            \E fail \in FailPointsOf(chat, user, reply, lp), latch \in BOOLEAN :
                Track(chat, user, mid, reply, fail, latch, lp)

\* The clock advances.
Tick ==
    /\ now < MaxTime
    /\ now' = now + 1
    /\ summarised' = FALSE
    /\ UNCHANGED <<messages, unanswered_questions, response_metrics, employees,
                   employee_activity, turn_seq, outbox, scan, last, closures, m1>>

\* SELECT ... FROM unanswered_questions WHERE reminded = FALSE AND
\* (JULIANDAY(now) - JULIANDAY(last_message_timestamp)) * 86400 > threshold
\* (bot.py:141-147).
Overdue(turns, t) ==
    {u \in turns : ~u.reminded
                   /\ t - u.last_message_timestamp > UNANSWERED_ALERT_THRESHOLD}

\* The orders in which a query without ORDER BY may return the rows of S.
RECURSIVE Orders(_)
Orders(S) ==
    IF S = {} THEN {<<>>}
    ELSE UNION {{<<x>> \o rest : rest \in Orders(S \ {x})} : x \in S}

\* check_unanswered_questions (bot.py:130-198), one step of a run.  A run
\* starts with the SELECT (fetchall) and then, turn by turn, sends the reminder
\* and marks the turn: it yields to the other handlers at every send
\* (bot.py:174) and sleep (bot.py:192), so the run is a sequence of steps.
\*   scan = <<>>  no run is in progress: a run starts and selects;
\*   otherwise    the head of scan is handled: send, then
\*                UPDATE ... SET reminded = TRUE WHERE turn_id = ? and commit;
\*                a failed send or UPDATE is logged and the run goes on.
CheckUnanswered(order, sendOk, fail) ==
    IF scan = <<>>
    THEN /\ ADMIN_CHAT_ID_SET
         /\ order \in (IF fail THEN {<<>>}
                       ELSE Orders(Overdue(unanswered_questions, now)))
         /\ scan' = order
         /\ m1' = IF /\ m1 # NoEvent
                     /\ ~fail
                     /\ now - m1.at > UNANSWERED_ALERT_THRESHOLD
                  THEN [m1 EXCEPT !.esc = IF @ = "none" THEN "due" ELSE @]
                  ELSE m1
         /\ UNCHANGED <<messages, unanswered_questions, response_metrics,
                        employees, employee_activity, turn_seq, now, outbox,
                        last, closures, summarised>>
    ELSE LET u == Head(scan)
         IN  /\ order = <<>>
             /\ scan' = Tail(scan)
             /\ outbox' = IF sendOk
                          THEN Notify(outbox, Note("reminder", u.chat_id,
                                   u.partner_user_id, u.last_partner_message_id))
                          ELSE outbox
             /\ unanswered_questions' =
                    IF sendOk /\ ~fail
                    THEN {IF x.turn_id = u.turn_id THEN [x EXCEPT !.reminded = TRUE]
                          ELSE x : x \in unanswered_questions}
                    ELSE unanswered_questions
             /\ m1' = IF (~sendOk \/ fail) /\ m1.esc = "due"
                      THEN [m1 EXCEPT !.esc = "void"]
                      ELSE m1
             /\ UNCHANGED <<messages, response_metrics, employees,
                            employee_activity, turn_seq, now, last, closures,
                            summarised>>

CheckUnansweredQuestions ==
    \E order \in {<<>>} \cup Orders(Overdue(unanswered_questions, now)),
       sendOk \in BOOLEAN, fail \in BOOLEAN :
        CheckUnanswered(order, sendOk, fail)

\* add_employee (bot.py:733-813) and remove_employee (bot.py:937-984), called
\* with an argument by the admin: context.args is the list of arguments, so
\* `context.args.startswith` (bot.py:749) raises AttributeError and
\* `int(context.args)` (bot.py:949) raises TypeError, neither inside a try nor
\* caught as ValueError.  The INSERT of bot.py:791 and the DELETE of bot.py:970
\* are never reached and the registry stays as it is.
add_employee(registry, target) == registry

remove_employee(registry, target) == registry

AddEmployee ==
    \E target \in Users :
        /\ employees' = add_employee(employees, target)
        /\ UNCHANGED <<messages, unanswered_questions, response_metrics,
                       employee_activity, turn_seq, now, outbox, scan, last,
                       closures, summarised, m1>>

RemoveEmployee ==
    \E target \in Users :
        /\ employees' = remove_employee(employees, target)
        /\ UNCHANGED <<messages, unanswered_questions, response_metrics,
                       employee_activity, turn_seq, now, outbox, scan, last,
                       closures, summarised, m1>>

\* ------------------------------------------------------------ daily summary
\* DATE(timestamp) = ? with today = datetime.now().strftime('%Y-%m-%d').
Date(t) == t \div TicksPerDay

RECURSIVE SumOfDurations(_)
SumOfDurations(S) ==
    IF S = {} THEN 0
    ELSE LET m == CHOOSE x \in S : TRUE
         IN  m.response_duration_seconds + SumOfDurations(S \ {m})

\* The same statement with the counters added to those of the stored row.
InsertOrAdd(activity, rows) ==
    LET Old(r) == {a \in activity : a.user_id = r.user_id /\ a.date = r.date}
        Sum(r) == IF Old(r) = {} THEN r
                  ELSE LET a == CHOOSE x \in Old(r) : TRUE
                       IN  [r EXCEPT
                              !.message_count = @ + a.message_count,
                              !.partner_turns_answered =
                                  @ + a.partner_turns_answered]
    IN  {a \in activity : \A r \in rows : ~(r.user_id = a.user_id
                                            /\ r.date = a.date)}
        \cup {Sum(r) : r \in rows}

\* INSERT OR REPLACE INTO employee_activity, PRIMARY KEY (user_id, date)
\* (bot.py:274-279): the stored row of the same key gives way to the new one.
InsertOrReplace(activity, rows) ==
    {a \in activity : \A r \in rows : ~(r.user_id = a.user_id
                                        /\ r.date = a.date)}
    \cup rows

\* update_employee_activity_summary (bot.py:200-285) at tick t: the table
\* employee_activity it leaves.  The first SELECT groups the messages of the
\* day by user_id, whoever sent them; the second and third read the metrics
\* of the day (AVG is taken as the integer quotient).  Every user of
\* activity_updates is written; employee_activity.user_id REFERENCES
\* employees(user_id) and PRAGMA foreign_keys is ON (bot.py:26), so a user
\* outside the registry raises IntegrityError, which leaves the `with conn`
\* block (rollback of the rows already written) and is logged at bot.py:285.
update_employee_activity_summary(db, registry, activity, t, fail) ==
    LET today == Date(t)
        of_day == {r \in db.messages : Date(r.timestamp) = today}
        metrics_of_day == {m \in db.metrics : Date(m.timestamp) = today}
        to_partners == {m \in metrics_of_day :
                           m.original_sender_user_id \notin registry}
        messages_data == {r.user_id : r \in of_day}
        partner_turns_answered == {m.responder_user_id : m \in to_partners}
        response_times(u) == {m \in metrics_of_day : m.responder_user_id = u}
        activity_updates == messages_data \cup partner_turns_answered
        data(u) ==
            [user_id   |-> u,
             date      |-> today,
             message_count |-> Cardinality({r \in of_day : r.user_id = u}),
             avg_response_time |->
                 IF response_times(u) = {} THEN 0
                 ELSE SumOfDurations(response_times(u))
                          \div Cardinality(response_times(u)),
             partner_turns_initiated |-> 0,
             partner_turns_answered |->
                 Cardinality({m \in to_partners : m.responder_user_id = u})]
    IN  IF fail \/ activity_updates \ registry # {}
        THEN activity
        ELSE InsertOrReplace(activity, {data(u) : u \in activity_updates})

\* The job of bot.py:1041-1047 (cron, five minutes past midnight): it runs in
\* the first tick of a day.
UpdateEmployeeActivitySummary ==
    \E fail \in BOOLEAN :
        /\ now % TicksPerDay = 0
        /\ employee_activity' =
               update_employee_activity_summary(CurrentDb, employees,
                                                employee_activity, now, fail)
        /\ summarised' = ~fail
        /\ UNCHANGED <<messages, unanswered_questions, response_metrics,
                       employees, turn_seq, now, outbox, scan, last, closures,
                       m1>>

Next ==
    \/ TrackMessage
    \/ CheckUnansweredQuestions
    \/ UpdateEmployeeActivitySummary
    \/ AddEmployee
    \/ RemoveEmployee
    \/ Tick

Spec == Init /\ [][Next]_vars

\* ------------------------------------------------------------------- claims
\* The ResponseMetric rows recorded for the reply (chat, mid).
MetricsOfReply(metrics, chat, mid) ==
    {m \in metrics : m.chat_id = chat /\ m.reply_message_id = mid}

\* C2: processing a message whose (chat_id, message_id) is already stored
\* changes nothing: the messages, the open turns and the response metrics are
\* the same after the redelivery as before it, whoever sent it and whichever
\* store operation failed during the run.
C2_RedeliveryChangesNothing ==
    [][\/ /\ messages' = messages
          /\ unanswered_questions' = unanswered_questions
          /\ response_metrics' = response_metrics
       \/ \A chat \in Chats, mid \in MsgIds :
            MessageStored(messages, chat, mid) =>
              \A user \in Users, reply \in {NULL} \cup MsgIds,
                 fail \in FailPoints :
                   \A lp \in LastPartnerOf(chat, user) :
                       ~Track(chat, user, mid, reply, fail, FALSE, lp)]_vars

\* A stored partner message has been delivered again.
C2_Redelivered ==
    /\ last.dup
    /\ ~last.employee
    /\ \E r \in messages : r.is_partner_message

\* C3: after a partner message that is not a redelivery is processed, without a
\* store failure, for a key that has no open turn, the message is stored and
\* exactly one open turn exists for the key, with last_partner_message_id the
\* message's id, both timestamps the processing time and reminded = FALSE.
C3_FirstMessageOpensTurn ==
    [][\A chat \in Chats, user \in Users \ employees, mid \in MsgIds :
         (/\ ~MessageStored(messages, chat, mid)
          /\ TurnsOfKey(unanswered_questions, chat, user) = {}
          /\ \E reply \in {NULL} \cup MsgIds, latch \in BOOLEAN :
                Track(chat, user, mid, reply, "none", latch, NoRow))
         => /\ MessageStored(messages', chat, mid)
            /\ \E t \in unanswered_questions' :
                 /\ TurnsOfKey(unanswered_questions', chat, user) = {t}
                 /\ t.last_partner_message_id = mid
                 /\ t.turn_start_timestamp = now
                 /\ t.last_message_timestamp = now
                 /\ ~t.reminded]_vars

\* C4: M1 then M2 from the same partner in the same chat, no employee message
\* between them, M2 processed less than CONVERSATION_TURN_TIMEOUT after M1:
\* afterwards the key has exactly one open turn, it is the turn the key had
\* after M1, and its last_partner_message_id is M2's id.
C4_SecondMessageExtends ==
    [][\A chat \in Chats, user \in Users \ employees, mid \in MsgIds :
         (/\ m1.chat = chat /\ m1.user = user /\ m1.message # mid
          /\ now - m1.at < CONVERSATION_TURN_TIMEOUT
          /\ ~MessageStored(messages, chat, mid)
          /\ \E reply \in {NULL} \cup MsgIds, latch \in BOOLEAN :
                Track(chat, user, mid, reply, "none", latch, NoRow))
         => \E t \in unanswered_questions' :
              /\ TurnsOfKey(unanswered_questions', chat, user) = {t}
              /\ t.last_partner_message_id = mid
              /\ \E old \in TurnsOfKey(unanswered_questions, chat, user) :
                    old.turn_id = t.turn_id]_vars

\* C5: M1 then M2 from the same partner in the same chat, no employee message
\* between them, M2 processed more than CONVERSATION_TURN_TIMEOUT after M1:
\* afterwards the key has exactly one open turn, a new one (another turn_id,
\* started at M2's processing time, reminded = FALSE) whose
\* last_partner_message_id is M2's id, and no response metric names M1 as the
\* original message.
C5_LateMessageReplaces ==
    [][\A chat \in Chats, user \in Users \ employees, mid \in MsgIds :
         (/\ m1.chat = chat /\ m1.user = user /\ m1.message # mid
          /\ now - m1.at > CONVERSATION_TURN_TIMEOUT
          /\ ~MessageStored(messages, chat, mid)
          /\ \E reply \in {NULL} \cup MsgIds, latch \in BOOLEAN :
                Track(chat, user, mid, reply, "none", latch, NoRow))
         => /\ \E t \in unanswered_questions' :
                 /\ TurnsOfKey(unanswered_questions', chat, user) = {t}
                 /\ t.last_partner_message_id = mid
                 /\ t.turn_start_timestamp = now
                 /\ ~t.reminded
                 /\ \A old \in TurnsOfKey(unanswered_questions, chat, user) :
                       old.turn_id # t.turn_id
            /\ \A m \in response_metrics' :
                 ~(m.chat_id = chat /\ m.original_message_id = m1.message)]_vars

C14_OverdueTurnIsEscalated ==
    (m1.esc = "due" /\ scan = <<>>) =>
        LET n == Note("reminder", m1.chat, m1.user, m1.message)
        IN  /\ n \in DOMAIN outbox
            /\ outbox[n] = 1
            /\ \E t \in TurnsOfKey(unanswered_questions, m1.chat, m1.user) :
                  t.last_partner_message_id = m1.message /\ t.reminded

\* C15: a partner message opens a turn and an employee message closes it
\* before more than UNANSWERED_ALERT_THRESHOLD has passed since the partner
\* message: afterwards the turn is gone, exactly one response metric exists
\* for the employee message, and no reminder has been sent for the turn.
C15_TimelyReplyRecordsOneMetric ==
    [][\A chat \in Chats, user \in employees, mid \in MsgIds :
         (/\ m1.chat = chat
          /\ now - m1.at <= UNANSWERED_ALERT_THRESHOLD
          /\ ~MessageStored(messages, chat, mid)
          /\ \E reply \in {NULL} \cup MsgIds, lp \in LastPartnerOf(chat, user) :
                Track(chat, user, mid, reply, "none", FALSE, lp))
         => /\ TurnsOfKey(unanswered_questions', chat, m1.user) = {}
            /\ Cardinality(MetricsOfReply(response_metrics', chat, mid)) = 1
            /\ Note("reminder", chat, m1.user, m1.message) \notin DOMAIN outbox']_vars

\* The store operations of a message's transition (bot.py:300-351): the turn
\* SELECT, UPDATE, DELETE and INSERT, the message INSERT, the closing DELETE,
\* the metric INSERT and the commit.
TransitionFailures ==
    {"turn_select", "turn_update", "turn_delete", "turn_insert",
     "insert_message", "close", "metrics", "commit"}

\* C17: processing one message is all-or-nothing: when a store operation of
\* the transition fails, the messages, the open turns and the response metrics
\* are afterwards as they were before the message.
C17_FailedRunChangesNothing ==
    [][\/ /\ messages' = messages
          /\ unanswered_questions' = unanswered_questions
          /\ response_metrics' = response_metrics
       \/ \A chat \in Chats, user \in Users, mid \in MsgIds,
             reply \in {NULL} \cup MsgIds, fail \in TransitionFailures,
             latch \in BOOLEAN :
               \A lp \in LastPartnerOf(chat, user) :
                   ~Track(chat, user, mid, reply, fail, latch, lp)]_vars

\* C18: a failure while one message is processed is caught and reported to the
\* operator: every run in which a store operation fails ends in the handler of
\* bot.py:353, which sends the report to ADMIN_CHAT_ID.  (That the next message
\* is processed all the same needs no formula: a run leaves nothing behind but
\* the tables.)
C18_FailureIsReported ==
    [][\A chat \in Chats, user \in Users, mid \in MsgIds,
          reply \in {NULL} \cup MsgIds, fail \in TransitionFailures :
            \A lp \in LastPartnerOf(chat, user) :
                Track(chat, user, mid, reply, fail, FALSE, lp)
                => (last'.outcome = "rolled_back" /\ ADMIN_CHAT_ID_SET)]_vars

\* C26: the message log and the metric log are append-only.  No step removes
\* a stored message or changes one of its fields other than setting
\* was_answered (turn_id included), and no step removes or changes a stored
\* metric.
C26_LogsAreAppendOnly ==
    [][\/ /\ messages' = messages
          /\ response_metrics' = response_metrics
       \/ /\ \A r \in messages :
                 \/ r \in messages'
                 \/ [r EXCEPT !.was_answered = TRUE] \in messages'
          /\ response_metrics \subseteq response_metrics']_vars

\* A message was added to a log that already held an older message, and the
\* older one, stored by a run whose turn statement failed, is still there.
C26_LogGrewPastStoredMessage ==
    /\ last.outcome = "committed"
    /\ \E r \in messages, q \in messages :
         /\ r.timestamp < q.timestamp
         /\ r.is_partner_message
         /\ r.turn_id = NULL

\* The messages of user u stored with the date of tick t.
MessagesOfDay(u, t) ==
    {r \in messages : r.user_id = u /\ Date(r.timestamp) = Date(t)}

\* C28: the daily job is idempotent.  Once it has run for a date and nothing
\* has been stored since, a second run for the same date leaves
\* employee_activity exactly as the first run left it.
C28_SecondRunChangesNothing ==
    summarised =>
        update_employee_activity_summary(CurrentDb, employees,
                                         employee_activity, now, FALSE)
            = employee_activity

\* The job has just written a row of the current date that counts at least
\* one message: the row a second run writes again.
C28_SummaryWritten ==
    /\ summarised
    /\ \E a \in employee_activity :
         a.date = Date(now) /\ a.message_count >= 1

\* C29: after a run of the daily job for a date, every employee with at least
\* one stored message of that date has exactly one employee_activity row of
\* the date, whose message_count is the number of those messages, whether or
\* not partners wrote on that date; and no row belongs to a non-employee.
C29_EveryEmployeeOfTheDayIsSummarised ==
    summarised =>
        /\ \A u \in employees :
             MessagesOfDay(u, now) # {} =>
               LET rows == {a \in employee_activity :
                               a.user_id = u /\ a.date = Date(now)}
               IN  /\ Cardinality(rows) = 1
                   /\ \A a \in rows :
                        a.message_count = Cardinality(MessagesOfDay(u, now))
        /\ \A a \in employee_activity : a.user_id \in employees

====
